---- MODULE Spec2Model ----
(***************************************************************************)
(* Model of automirror's mirror.py: the remote head resolver with its      *)
(* process-wide cache, the sync-necessity evaluator, the grouping of the   *)
(* selected jobs by target repository, the per-job sync and the run        *)
(* coordinator with its failure flags and exit status.                     *)
(***************************************************************************)
EXTENDS Integers, Sequences, FiniteSets, TLC

\* ------------------------------------------------------------------ bounds
\* most jobs a configuration holds
MaxJobs == 3

\* repository URLs (ordered as sorted() orders the strings), branch names in
\* the order git ls-remote lists them, and commit identifiers
Urls == {1, 2}
Branches == {1}
Hashes == {1, 2}

\* dict.get() of a branch that is not in the heads mapping
NoHash == 0

\* exceptions the external invocations and the code raise
CalledProcessError == "CalledProcessError"
TimeoutExpired == "TimeoutExpired"
ValueError == "ValueError"
OSError == "OSError"
NoExc == "none"

\* the remote every clone starts with
Origin == "origin"

\* the names of the configuration's tables: a table may be called "origin",
\* the others are called after their position
JobNames == {Origin} \cup {ToString(i) : i \in 1..MaxJobs}

\* the MirrorJob dataclass
MirrorJob == [name : JobNames, from_repo : Urls, from_branch : Branches,
              to_repo : Urls, to_branch : Branches]

\* the four values of one table of the configuration
JobData == [from_repo : Urls, from_branch : Branches,
            to_repo : Urls, to_branch : Branches]

\* load_config: the ordered mapping name -> MirrorJob; names are keys of the
\* mapping and so unique; the first table may be the one called "origin"
load_config ==
    UNION {{[i \in 1..n |->
                [name |-> IF i = o THEN Origin ELSE ToString(i),
                 from_repo |-> data[i].from_repo, from_branch |-> data[i].from_branch,
                 to_repo |-> data[i].to_repo, to_branch |-> data[i].to_branch]]
            : data \in [1..n -> JobData], o \in {0, 1}}
           : n \in 1..MaxJobs}

VARIABLES
    jobs,            \* load_config().values(), in configuration order
    remote,          \* the branch heads of every repository, as the servers hold them
    cache,           \* the @cache of get_remote_heads
    queries,         \* per URL: git ls-remote invocations issued
    calls,           \* per URL: get_remote_heads invocations
    pc,              \* position of main
    evalIdx,         \* next job of the list comprehension of main
    selected,        \* main's jobs list: names of the jobs should_sync_job accepted
    evaluated,       \* per job: "pending", "skip" or "sync" (should_sync_job's result)
    gi,              \* index of the current group of the groupby loop
    ji,              \* index of the current job within the group
    global_failure,
    group_failure,
    cloneLog,        \* the clone/config invocations of the run, in order
    dirs,            \* per group processed: its working directory
    steps,           \* per job: the git invocations sync_repos issued for it
    result,          \* per job: "pending", "ok" or "failed"
    lastExc,         \* the last exception raised by an invocation
    exit             \* process exit status, -1 while running

vars == <<jobs, remote, cache, queries, calls, pc, evalIdx, selected, evaluated,
          gi, ji, global_failure, group_failure, cloneLog, dirs, steps, result,
          lastExc, exit>>

\* ------------------------------------------------------- exception handling
\* Does an except clause catch the exception?  "bare" is `except:`.
Catches(handler, exc) ==
    \/ handler = "bare"
    \/ handler = exc

\* the except clause around each invocation
ResolverHandler == CalledProcessError

\* variant: the job loop catches only CalledProcessError
JobHandlerNarrow == CalledProcessError

JobHandler == "bare"

CleanupHandler == "bare"

\* ------------------------------------------------------ get_remote_heads
Unset == [state |-> "unset", heads |-> [b \in Branches |-> NoHash]]
None == [state |-> "none", heads |-> [b \in Branches |-> NoHash]]

\* the output of git ls-remote --heads: one <<hash, ref>> line per branch
RECURSIVE LsRemoteOf(_, _)
LsRemoteOf(hs, bs) ==
    IF bs = {} THEN <<>>
    ELSE LET b == CHOOSE x \in bs : \A y \in bs : y <= x
         IN IF hs[b] = NoHash THEN LsRemoteOf(hs, bs \ {b})
            ELSE Append(LsRemoteOf(hs, bs \ {b}), <<hs[b], b>>)

LsRemote(hs) == LsRemoteOf(hs, Branches)

\* the parsing loop: heads[head] = hash for every line, last occurrence wins
RECURSIVE ParseHeads(_)
ParseHeads(lines) ==
    IF lines = <<>> THEN [b \in Branches |-> NoHash]
    ELSE LET line == lines[Len(lines)]
         IN [ParseHeads(SubSeq(lines, 1, Len(lines) - 1)) EXCEPT ![line[2]] = line[1]]

\* what one git ls-remote invocation can do
QueryOutcomes == {"ok", "exit", "timeout", "malformed"}

\* the outcomes open to get_remote_heads(url): a cached URL invokes nothing
QueryChoices(r, url) ==
    IF r.cache[url].state = "unset" THEN QueryOutcomes ELSE {"ok"}

\* the exception an invocation outcome raises inside get_remote_heads
QueryRaises(outcome) ==
    CASE outcome = "exit" -> CalledProcessError
      [] outcome = "timeout" -> TimeoutExpired
      [] outcome = "malformed" -> ValueError
      [] OTHER -> NoExc

\* variant: get_remote_heads without @cache, every call invokes git ls-remote
get_remote_heads_uncached(r, url, outcome, world) ==
    LET asked == [r EXCEPT !.calls[url] = @ + 1, !.queries[url] = @ + 1]
        exc == QueryRaises(outcome)
    IN IF exc = NoExc
       THEN LET v == [state |-> "heads", heads |-> ParseHeads(LsRemote(world[url]))]
            IN [res |-> [asked EXCEPT !.cache[url] = v], value |-> v, raised |-> NoExc]
       ELSE IF exc = CalledProcessError
       THEN [res |-> [asked EXCEPT !.cache[url] = None], value |-> None, raised |-> NoExc]
       ELSE [res |-> asked, value |-> Unset, raised |-> exc]

\* variant: a failed query is not remembered, the next call asks again
get_remote_heads_retry(r, url, outcome, world) ==
    LET called == [r EXCEPT !.calls[url] = @ + 1]
        asked == [called EXCEPT !.queries[url] = @ + 1]
        exc == QueryRaises(outcome)
    IN IF r.cache[url].state = "heads"
       THEN [res |-> called, value |-> r.cache[url], raised |-> NoExc]
       ELSE IF exc = NoExc
       THEN LET v == [state |-> "heads", heads |-> ParseHeads(LsRemote(world[url]))]
            IN [res |-> [asked EXCEPT !.cache[url] = v], value |-> v, raised |-> NoExc]
       ELSE IF exc = CalledProcessError
       THEN [res |-> asked, value |-> None, raised |-> NoExc]
       ELSE [res |-> asked, value |-> Unset, raised |-> exc]

\* get_remote_heads(url) on the resolver state r = [cache, queries, calls]:
\* the new resolver state, the value returned and the exception raised
get_remote_heads(r, url, outcome, world) ==
    LET called == [r EXCEPT !.calls[url] = @ + 1]
        exc == QueryRaises(outcome)
    IN IF r.cache[url].state # "unset"
       THEN [res |-> called, value |-> r.cache[url], raised |-> NoExc]
       ELSE LET asked == [called EXCEPT !.queries[url] = @ + 1]
            IN IF exc = NoExc
               THEN LET v == [state |-> "heads", heads |-> ParseHeads(LsRemote(world[url]))]
                    IN [res |-> [asked EXCEPT !.cache[url] = v], value |-> v, raised |-> NoExc]
               ELSE IF Catches(ResolverHandler, exc)
               THEN [res |-> [asked EXCEPT !.cache[url] = None], value |-> None, raised |-> NoExc]
               ELSE [res |-> asked, value |-> Unset, raised |-> exc]

\* ------------------------------------------------------- should_sync_job
\* variant: a missing target branch is taken for "nothing to do"
needs_sync_target_required(from_heads, to_heads, job) ==
    IF from_heads.state = "none" \/ to_heads.state = "none" THEN FALSE
    ELSE LET from_hash == from_heads.heads[job.from_branch]
             to_hash == to_heads.heads[job.to_branch]
         IN from_hash # NoHash /\ to_hash # NoHash /\ from_hash # to_hash

\* variant: only the source resolution is checked for absence
needs_sync_source_only(from_heads, to_heads, job) ==
    IF from_heads.state = "none" THEN FALSE
    ELSE LET from_hash == from_heads.heads[job.from_branch]
             to_hash == to_heads.heads[job.to_branch]
         IN from_hash # NoHash /\ from_hash # to_hash

\* variant: the check for a missing source branch is left out
needs_sync_no_source_check(from_heads, to_heads, job) ==
    IF from_heads.state = "none" \/ to_heads.state = "none" THEN FALSE
    ELSE from_heads.heads[job.from_branch] # to_heads.heads[job.to_branch]

\* variant: `and` in place of `or` in the test for absent heads
needs_sync_both_absent(from_heads, to_heads, job) ==
    IF from_heads.state = "none" /\ to_heads.state = "none" THEN FALSE
    ELSE LET from_hash == from_heads.heads[job.from_branch]
             to_hash == to_heads.heads[job.to_branch]
         IN IF from_hash = NoHash THEN FALSE
            ELSE IF from_hash = to_hash THEN FALSE
            ELSE TRUE

\* the decision of should_sync_job once both heads are resolved
needs_sync(from_heads, to_heads, job) ==
    IF from_heads.state = "none" \/ to_heads.state = "none" THEN FALSE
    ELSE LET from_hash == from_heads.heads[job.from_branch]
             to_hash == to_heads.heads[job.to_branch]
         IN IF from_hash = NoHash THEN FALSE
            ELSE IF from_hash = to_hash THEN FALSE
            ELSE TRUE

Resolver == [cache |-> cache, queries |-> queries, calls |-> calls]

\* an uncaught exception leaves main: the interpreter exits with status 1
Crash(exc) ==
    /\ pc' = "crashed"
    /\ lastExc' = exc
    /\ exit' = 1

\* one iteration of main's list comprehension: should_sync_job(job)
EvalJob ==
    /\ pc = "eval"
    /\ \E oFrom \in QueryChoices(Resolver, jobs[evalIdx].from_repo) :
       \E oTo \in QueryChoices(get_remote_heads(Resolver, jobs[evalIdx].from_repo,
                                                oFrom, remote).res,
                                jobs[evalIdx].to_repo) :
         LET job == jobs[evalIdx]
             f == get_remote_heads(Resolver, job.from_repo, oFrom, remote)
             t == get_remote_heads(f.res, job.to_repo, oTo, remote)
         IN IF f.raised # NoExc
            THEN /\ Crash(f.raised)
                 /\ cache' = f.res.cache
                 /\ queries' = f.res.queries
                 /\ calls' = f.res.calls
                 /\ UNCHANGED <<evalIdx, selected, evaluated>>
            ELSE IF t.raised # NoExc
            THEN /\ Crash(t.raised)
                 /\ cache' = t.res.cache
                 /\ queries' = t.res.queries
                 /\ calls' = t.res.calls
                 /\ UNCHANGED <<evalIdx, selected, evaluated>>
            ELSE /\ cache' = t.res.cache
                 /\ queries' = t.res.queries
                 /\ calls' = t.res.calls
                 /\ LET sync == needs_sync(f.value, t.value, job)
                    IN /\ selected' = IF sync THEN Append(selected, evalIdx) ELSE selected
                       /\ evaluated' = [evaluated EXCEPT ![evalIdx] = IF sync THEN "sync" ELSE "skip"]
                 /\ evalIdx' = evalIdx + 1
                 /\ pc' = IF evalIdx = Len(jobs) THEN "group" ELSE "eval"
                 /\ UNCHANGED <<lastExc, exit>>
    /\ UNCHANGED <<jobs, remote, gi, ji, global_failure, group_failure, cloneLog,
                   dirs, steps, result>>

\* ------------------------------------------------------------ grouping
by_repo_url(j) == jobs[j].to_repo

\* sorted(jobs, key=by_repo_url): stable, ascending by key
RECURSIVE Insert(_, _)
Insert(s, j) ==
    IF s = <<>> THEN <<j>>
    ELSE IF by_repo_url(s[Len(s)]) <= by_repo_url(j) THEN Append(s, j)
    ELSE Append(Insert(SubSeq(s, 1, Len(s) - 1), j), s[Len(s)])

RECURSIVE sorted(_)
sorted(s) ==
    IF s = <<>> THEN <<>>
    ELSE Insert(sorted(SubSeq(s, 1, Len(s) - 1)), s[Len(s)])

\* itertools.groupby: one group per run of consecutive equal keys
RECURSIVE groupby(_)
groupby(s) ==
    IF s = <<>> THEN <<>>
    ELSE LET before == groupby(SubSeq(s, 1, Len(s) - 1))
             j == s[Len(s)]
             n == Len(before)
         IN IF n > 0 /\ before[n].repo_url = by_repo_url(j)
            THEN [before EXCEPT ![n].jobs = Append(@, j)]
            ELSE Append(before, [repo_url |-> by_repo_url(j), jobs |-> <<j>>])

\* variant: the loop runs over every configured job, the filter is lost
GroupsOfAll(sel) == groupby(sorted([i \in DOMAIN jobs |-> i]))

\* the sequence the for loop of main iterates over
GroupsOf(sel) == groupby(sorted(sel))

Groups == GroupsOf(selected)

\* ------------------------------------------------------------ sync_repos
StepExcs == {CalledProcessError, TimeoutExpired}

\* the record of the invocations a sync_repos call issued: run(..., check=True)
\* returns for every one but the last, which raised unless ok
Ran(names, ok) ==
    [i \in 1..Len(names) |-> [step |-> names[i], ok |-> (i < Len(names) \/ ok)]]

\* what the invocations of one sync_repos call can do: the outcome of the
\* ls-remote query (if one is issued), the step that fails and how
SyncOutcomes(r, url) ==
    [query : QueryChoices(r, url), fails : {"none"}, exc : {NoExc}]
    \cup [query : QueryChoices(r, url), fails : {"add", "fetch", "push"}, exc : StepExcs]

\* sync_repos(job, repo_dir): the resolver state after it, the invocations
\* issued, the exception raised and the heads of the repositories after it
\* variant: the push names the wrong destination and leaves to_branch alone
sync_repos_no_update(j, o, r, world, remotes) ==
    LET job == jobs[j]
        h == get_remote_heads(r, job.to_repo, o.query, world)
        failed == o.fails # "none" \/ job.name \in remotes
                  \/ world[job.from_repo][job.from_branch] = NoHash
    IN IF h.raised # NoExc \/ h.value.state = "none" \/ failed
       THEN [res |-> h.res, issued |-> Ran(<<"add">>, FALSE), raised |-> CalledProcessError,
             world |-> world, remotes |-> remotes]
       ELSE [res |-> h.res, issued |-> Ran(<<"add", "fetch", "push">>, TRUE), raised |-> NoExc,
             world |-> world, remotes |-> remotes \cup {job.name}]

\* variant: the push sends the hash of the cached heads, not the fetched ref
sync_repos_push_cached(j, o, r, world, remotes) ==
    LET job == jobs[j]
        h == get_remote_heads(r, job.to_repo, o.query, world)
        failed == o.fails # "none" \/ job.name \in remotes
                  \/ world[job.from_repo][job.from_branch] = NoHash
        cached == r.cache[job.from_repo].heads[job.from_branch]
    IN IF h.raised # NoExc \/ h.value.state = "none" \/ failed
       THEN [res |-> h.res, issued |-> Ran(<<"add">>, FALSE), raised |-> CalledProcessError,
             world |-> world, remotes |-> remotes]
       ELSE [res |-> h.res, issued |-> Ran(<<"add", "fetch", "push">>, TRUE), raised |-> NoExc,
             world |-> [world EXCEPT ![job.to_repo][job.to_branch] = cached],
             remotes |-> remotes \cup {job.name}]

\* variant: the fetch runs without check=True, its failure goes unnoticed
sync_repos_unchecked_fetch(j, o, r, world, remotes) ==
    LET job == jobs[j]
        h == get_remote_heads(r, job.to_repo, o.query, world)
        fetched == world[job.from_repo][job.from_branch]
    IN IF h.raised # NoExc \/ h.value.state = "none" \/ o.fails \in {"add", "push"}
          \/ job.name \in remotes
       THEN [res |-> h.res, issued |-> Ran(<<"add">>, FALSE), raised |-> CalledProcessError,
             world |-> world, remotes |-> remotes]
       ELSE IF o.fails = "fetch" \/ fetched = NoHash
       THEN [res |-> h.res,
             issued |-> <<[step |-> "add", ok |-> TRUE], [step |-> "fetch", ok |-> FALSE],
                          [step |-> "push", ok |-> FALSE]>>,
             raised |-> CalledProcessError, world |-> world,
             remotes |-> remotes \cup {job.name}]
       ELSE [res |-> h.res, issued |-> Ran(<<"add", "fetch", "push">>, TRUE), raised |-> NoExc,
             world |-> [world EXCEPT ![job.to_repo][job.to_branch] = fetched],
             remotes |-> remotes \cup {job.name}]

\* (git remote add fails on a name the directory already has, git fetch on a
\* branch the source does not have)
sync_repos(j, o, r, world, remotes) ==
    LET job == jobs[j]
        h == get_remote_heads(r, job.to_repo, o.query, world)
        addExc == IF o.fails = "add" THEN o.exc
                  ELSE IF job.name \in remotes THEN CalledProcessError
                  ELSE NoExc
        added == remotes \cup {job.name}
        fetched == world[job.from_repo][job.from_branch]
        fetchExc == IF o.fails = "fetch" THEN o.exc
                    ELSE IF fetched = NoHash THEN CalledProcessError
                    ELSE NoExc
    IN IF h.raised # NoExc
       THEN [res |-> h.res, issued |-> Ran(<<>>, TRUE), raised |-> h.raised, world |-> world,
             remotes |-> remotes]
       ELSE IF h.value.state = "none"
       THEN [res |-> h.res, issued |-> Ran(<<>>, TRUE), raised |-> ValueError, world |-> world,
             remotes |-> remotes]
       ELSE IF addExc # NoExc
       THEN [res |-> h.res, issued |-> Ran(<<"add">>, FALSE), raised |-> addExc, world |-> world,
             remotes |-> remotes]
       ELSE IF fetchExc # NoExc
       THEN [res |-> h.res, issued |-> Ran(<<"add", "fetch">>, FALSE), raised |-> fetchExc,
             world |-> world, remotes |-> added]
       ELSE IF o.fails = "push"
       THEN [res |-> h.res, issued |-> Ran(<<"add", "fetch", "push">>, FALSE), raised |-> o.exc,
             world |-> world, remotes |-> added]
       ELSE [res |-> h.res, issued |-> Ran(<<"add", "fetch", "push">>, TRUE), raised |-> NoExc,
             world |-> [world EXCEPT ![job.to_repo][job.to_branch] = fetched],
             remotes |-> added]

\* ------------------------------------------------------------------ main
\* clone, then config; neither is inside a try block
CloneOutcomes == {[clone |-> NoExc, config |-> NoExc]}
                 \cup {[clone |-> e, config |-> "skipped"] : e \in StepExcs}
                 \cup {[clone |-> NoExc, config |-> e] : e \in StepExcs}

\* variant: the config step runs without check=True
CloneRaisesCloneOnly(o) == o.clone

\* the first exception of a clone/config pair
CloneRaises(o) == IF o.clone # NoExc THEN o.clone
                  ELSE IF o.config # NoExc THEN o.config
                  ELSE NoExc

\* the directory `git clone --no-checkout repo_url repo_path` leaves
NewDir(repo_url) == [repo_url |-> repo_url, rmtree |-> "no", remotes |-> {Origin}]

\* variant: the group flag is carried over from the previous group
KeepGroupFailure(previous) == previous

\* `group_failure = False` at the head of the loop body
NewGroupFailure(previous) == FALSE

\* head of the for loop body: allocate the path, clone and configure
CloneGroup ==
    /\ pc = "group"
    /\ gi <= Len(Groups)
    /\ \E o \in CloneOutcomes :
         /\ cloneLog' = Append(cloneLog, [repo_url |-> Groups[gi].repo_url,
                                          clone |-> o.clone, config |-> o.config])
         /\ IF CloneRaises(o) # NoExc
            THEN /\ Crash(CloneRaises(o))
                 /\ dirs' = IF o.clone = NoExc
                            THEN Append(dirs, NewDir(Groups[gi].repo_url))
                            ELSE dirs
                 /\ UNCHANGED <<group_failure, ji>>
            ELSE /\ group_failure' = NewGroupFailure(group_failure)
                 /\ ji' = 1
                 /\ dirs' = Append(dirs, NewDir(Groups[gi].repo_url))
                 /\ pc' = "jobs"
                 /\ UNCHANGED <<lastExc, exit>>
    /\ UNCHANGED <<jobs, remote, cache, queries, calls, evalIdx, selected, evaluated,
                   gi, global_failure, steps, result>>

\* the flags after the except clause of the job loop
JobFailed(flag) == TRUE

\* one iteration of the job loop: sync_repos inside try/except
SyncJob ==
    /\ pc = "jobs"
    /\ \E o \in SyncOutcomes(Resolver, jobs[Groups[gi].jobs[ji]].to_repo) :
         LET j == Groups[gi].jobs[ji]
             s == sync_repos(j, o, Resolver, remote, dirs[gi].remotes)
         IN /\ cache' = s.res.cache
            /\ dirs' = [dirs EXCEPT ![gi].remotes = s.remotes]
            /\ queries' = s.res.queries
            /\ calls' = s.res.calls
            /\ remote' = s.world
            /\ steps' = [steps EXCEPT ![j] = s.issued]
            /\ IF s.raised = NoExc
               THEN /\ result' = [result EXCEPT ![j] = "ok"]
                    /\ ji' = ji + 1
                    /\ pc' = IF ji = Len(Groups[gi].jobs) THEN "cleanup" ELSE "jobs"
                    /\ UNCHANGED <<global_failure, group_failure, lastExc, exit>>
               ELSE IF Catches(JobHandler, s.raised)
               THEN /\ result' = [result EXCEPT ![j] = "failed"]
                    /\ global_failure' = JobFailed(global_failure)
                    /\ group_failure' = JobFailed(group_failure)
                    /\ lastExc' = s.raised
                    /\ ji' = ji + 1
                    /\ pc' = IF ji = Len(Groups[gi].jobs) THEN "cleanup" ELSE "jobs"
                    /\ UNCHANGED exit
               ELSE /\ result' = [result EXCEPT ![j] = "failed"]
                    /\ Crash(s.raised)
                    /\ UNCHANGED <<global_failure, group_failure, ji>>
    /\ UNCHANGED <<jobs, evalIdx, selected, evaluated, gi, cloneLog>>

\* `if not group_failure:` -- is rmtree called?
ShouldRemove(gf) == ~gf

\* variant: a failed rmtree sets the global flag
CleanupFailedSets(flag) == TRUE

\* the global flag after the except clause around rmtree
CleanupFailed(flag) == flag

RmtreeOutcomes == {NoExc, OSError}

\* end of the for loop body, no job of the group failed: rmtree inside try/except
RemoveDir ==
    /\ pc = "cleanup"
    /\ ShouldRemove(group_failure)
    /\ \E o \in RmtreeOutcomes :
         IF o = NoExc
         THEN /\ dirs' = [dirs EXCEPT ![gi].rmtree = "removed"]
              /\ gi' = gi + 1
              /\ pc' = "group"
              /\ UNCHANGED <<global_failure, lastExc, exit>>
         ELSE IF Catches(CleanupHandler, o)
         THEN /\ dirs' = [dirs EXCEPT ![gi].rmtree = "failed"]
              /\ global_failure' = CleanupFailed(global_failure)
              /\ lastExc' = o
              /\ gi' = gi + 1
              /\ pc' = "group"
              /\ UNCHANGED exit
         ELSE /\ dirs' = [dirs EXCEPT ![gi].rmtree = "failed"]
              /\ Crash(o)
              /\ UNCHANGED <<global_failure, gi>>
    /\ UNCHANGED <<jobs, remote, cache, queries, calls, evalIdx, selected, evaluated,
                   ji, group_failure, cloneLog, steps, result>>

\* end of the for loop body, a job of the group failed: the directory is left
RetainDir ==
    /\ pc = "cleanup"
    /\ ~ShouldRemove(group_failure)
    /\ gi' = gi + 1
    /\ pc' = "group"
    /\ UNCHANGED <<jobs, remote, cache, queries, calls, evalIdx, selected, evaluated,
                   ji, global_failure, group_failure, cloneLog, dirs, steps, result,
                   lastExc, exit>>

\* `return 1 if global_failure else 0`
ExitStatus(flag) == IF flag THEN 1 ELSE 0

\* the for loop is exhausted: main returns and sys.exit passes the status on
Return ==
    /\ pc = "group"
    /\ gi > Len(Groups)
    /\ exit' = ExitStatus(global_failure)
    /\ pc' = "done"
    /\ UNCHANGED <<jobs, remote, cache, queries, calls, evalIdx, selected, evaluated,
                   gi, ji, global_failure, group_failure, cloneLog, dirs, steps, result,
                   lastExc>>

Init ==
    /\ jobs \in load_config
    /\ remote \in [Urls -> [Branches -> Hashes \cup {NoHash}]]
    /\ cache = [u \in Urls |-> Unset]
    /\ queries = [u \in Urls |-> 0]
    /\ calls = [u \in Urls |-> 0]
    /\ pc = "eval"
    /\ evalIdx = 1
    /\ selected = <<>>
    /\ evaluated = [j \in 1..Len(jobs) |-> "pending"]
    /\ gi = 1
    /\ ji = 1
    /\ global_failure = FALSE
    /\ group_failure = FALSE
    /\ cloneLog = <<>>
    /\ dirs = <<>>
    /\ steps = [j \in 1..Len(jobs) |-> <<>>]
    /\ result = [j \in 1..Len(jobs) |-> "pending"]
    /\ lastExc = NoExc
    /\ exit = -1

Next ==
    \/ EvalJob
    \/ CloneGroup
    \/ SyncJob
    \/ RemoveDir
    \/ RetainDir
    \/ Return

Spec == Init /\ [][Next]_vars

\* ------------------------------------------------------------ vocabulary
Names == DOMAIN jobs

Terminated == pc \in {"done", "crashed"}

\* the list comprehension of main ran to its end
EvalComplete == evalIdx > Len(jobs)

\* an exception left should_sync_job
EvalCrashed == pc = "crashed" /\ ~EvalComplete

\* a clone or config invocation failed
GroupStepFailed == \E i \in DOMAIN cloneLog : CloneRaises(cloneLog[i]) # NoExc

\* a remote add, fetch or push (or anything else in sync_repos) failed
JobStepFailed == \E j \in Names : result[j] = "failed"

\* some job of the g-th group failed
GroupHasFailure(g) ==
    \E k \in DOMAIN Groups[g].jobs : result[Groups[g].jobs[k]] = "failed"

\* the loop body of the g-th group ran to its end
GroupCompleted(g) == g < gi

\* the distinct target repositories of the selected jobs
Targets == {jobs[selected[i]].to_repo : i \in DOMAIN selected}

ClonesOf(u) == Cardinality({i \in DOMAIN cloneLog : cloneLog[i].repo_url = u})

\* ------------------------------------------------------------------ claims

\* C1: when the clone or config step of a group fails (non-zero exit or
\* timeout), the run does not end there: it ends with status 1 only after
\* every group was cloned and every job of the other groups was executed.
C1_CloneFailureIsolated ==
    (Terminated /\ GroupStepFailed) =>
        /\ exit = 1
        /\ Len(cloneLog) = Len(Groups)
        /\ \A g \in DOMAIN Groups :
             CloneRaises(cloneLog[g]) = NoExc =>
                \A k \in DOMAIN Groups[g].jobs : result[Groups[g].jobs[k]] # "pending"

\* C2: a failed remote-head query (non-zero exit, timeout, malformed line)
\* yields a cached absent value and never an exception: every URL queried has a
\* value, and no exception leaves the evaluation of the jobs.
C2_ResolverNeverRaises ==
    /\ \A u \in Urls : queries[u] > 0 => cache[u].state # "unset"
    /\ ~EvalCrashed

\* C3: a failing job (remote add, fetch or push; non-zero exit or timeout) is
\* isolated: the step that records the failure moves on to the next job of the
\* group and changes neither the repositories nor any other job's outcome; a
\* run that returns has executed every selected job; the directory of a group
\* with a failed job is never removed.
C3_JobFailureIsolated ==
    /\ [][\A j \in Names :
            (result[j] = "pending" /\ result'[j] = "failed") =>
                /\ pc' = (IF ji = Len(Groups[gi].jobs) THEN "cleanup" ELSE "jobs")
                /\ gi' = gi /\ ji' = ji + 1
                /\ exit' = exit
                /\ remote' = remote
                /\ \A k \in Names \ {j} : result'[k] = result[k] /\ steps'[k] = steps[k]]_vars
    /\ [][\A j \in Names : result[j] = "ok" => result'[j] = "ok"]_vars
    /\ [](pc = "done" => \A i \in DOMAIN selected : result[selected[i]] # "pending")
    /\ [](\A g \in DOMAIN dirs : GroupHasFailure(g) => dirs[g].rmtree = "no")

\* C3 witness: a returned run in which a job failed by timeout while another
\* job of the same group and a job of another group succeeded.
C3_Witness ==
    /\ pc = "done"
    /\ \E a, b, c \in Names :
         /\ jobs[a].to_repo = jobs[b].to_repo /\ jobs[c].to_repo # jobs[a].to_repo
         /\ a < b
         /\ result[a] = "failed" /\ result[b] = "ok" /\ result[c] = "ok"
         /\ lastExc = TimeoutExpired
    /\ \E g \in DOMAIN dirs : GroupHasFailure(g) /\ dirs[g].rmtree = "no"

\* C4: a cloned group's directory is removed (removal attempted) after its
\* jobs completed if and only if none of its own jobs failed, whatever happened
\* in other groups; the directory of a group with a failed job is never removed.
C4_RemovedIffGroupClean ==
    \A g \in DOMAIN dirs :
        /\ GroupHasFailure(g) => dirs[g].rmtree = "no"
        /\ GroupCompleted(g) => (dirs[g].rmtree # "no" <=> ~GroupHasFailure(g))

\* C4 witness: the first group failed and kept its directory, the second
\* group was clean and its directory was removed.
C4_Witness ==
    /\ pc = "done"
    /\ Len(dirs) = 2
    /\ GroupHasFailure(1) /\ dirs[1].rmtree = "no"
    /\ ~GroupHasFailure(2) /\ dirs[2].rmtree = "removed"

\* C5: the run ends with status 1 exactly if a clone, config, remote add,
\* fetch or push failed at any point, and with status 0 otherwise (the failed
\* steps stay on record, so a later success cannot clear the outcome).
C5_ExitStatus ==
    Terminated =>
        /\ exit \in {0, 1}
        /\ exit = 1 <=> (GroupStepFailed \/ JobStepFailed)

\* C6: a failed directory removal does not set the failure flag and does not
\* end the run: the flag is only ever set with a failed job, no run dies of
\* the removal's exception, a returned run cloned all its groups and exits 0
\* unless a job failed.
C6_CleanupFailureIgnored ==
    /\ global_failure => JobStepFailed
    /\ pc = "crashed" => lastExc # OSError
    /\ pc = "done" => Len(cloneLog) = Len(Groups)
    /\ (pc = "done" /\ ~JobStepFailed) => exit = 0

\* C6 witness: the removal of the first group's directory failed, a second
\* group was processed after it and the run exited 0.
C6_Witness ==
    /\ pc = "done"
    /\ exit = 0
    /\ Len(dirs) = 2
    /\ dirs[1].rmtree = "failed"
    /\ dirs[2].rmtree = "removed"

\* C7: in a run whose selected jobs span K distinct target repositories,
\* exactly K clone operations occur, one per distinct target.
C7_OneClonePerTarget ==
    (Terminated /\ EvalComplete) =>
        /\ Len(cloneLog) = Cardinality(Targets)
        /\ \A u \in Targets : ClonesOf(u) = 1

\* C8: every URL that was resolved, however often, was queried exactly once;
\* after the evaluation every URL of the configuration was queried exactly
\* once; a cached value, absent ones included, is never replaced or re-queried.
C8_OneQueryPerUrl ==
    /\ [](\A u \in Urls :
            /\ queries[u] <= 1
            /\ calls[u] >= 1 => queries[u] = 1)
    /\ [](EvalComplete =>
            \A j \in Names : queries[jobs[j].from_repo] = 1 /\ queries[jobs[j].to_repo] = 1)
    /\ [][\A u \in Urls :
            cache[u].state # "unset" =>
                cache'[u] = cache[u] /\ queries'[u] = queries[u]]_vars

\* C8 witness: a URL that is the source of one job and the target of two was
\* resolved three times by the evaluator and twice by the executor, with one
\* query in all.
C8_Witness ==
    \E u \in Urls :
        /\ cache[u].state = "heads" /\ calls[u] >= 5 /\ queries[u] = 1
        /\ \E j, k \in Names :
             /\ j # k
             /\ jobs[j].to_repo = u /\ result[j] # "pending"
             /\ jobs[k].to_repo = u /\ result[k] # "pending"
        /\ \E j \in Names : jobs[j].from_repo = u

\* the commit a branch of a repository points at, NoHash if there is none
HeadOf(u, b) == remote[u][b]

\* both endpoints of the job resolved to a heads mapping
Resolvable(j) ==
    cache[jobs[j].from_repo].state = "heads" /\ cache[jobs[j].to_repo].state = "heads"

\* no push has changed a repository yet
NoPushYet == \A j \in Names : result[j] # "ok"

\* C9: should_sync_job is false when the source branch's hash equals the target
\* branch's hash, and true when both endpoints resolved, the source branch
\* exists and the hashes differ, a missing target branch included.
C9_NeedsSyncByHash ==
    NoPushYet =>
        \A j \in Names :
            (evaluated[j] # "pending" /\ Resolvable(j)) =>
                LET from_hash == HeadOf(jobs[j].from_repo, jobs[j].from_branch)
                    to_hash == HeadOf(jobs[j].to_repo, jobs[j].to_branch)
                IN /\ from_hash = to_hash => evaluated[j] = "skip"
                   /\ (from_hash # NoHash /\ from_hash # to_hash) => evaluated[j] = "sync"

\* C9 witness: one job selected although its target branch does not exist,
\* another skipped because both branches are at the same commit.
C9_Witness ==
    /\ NoPushYet
    /\ \E j, k \in Names :
         /\ Resolvable(j) /\ evaluated[j] = "sync"
         /\ HeadOf(jobs[j].from_repo, jobs[j].from_branch) # NoHash
         /\ HeadOf(jobs[j].to_repo, jobs[j].to_branch) = NoHash
         /\ Resolvable(k) /\ evaluated[k] = "skip"
         /\ HeadOf(jobs[k].from_repo, jobs[k].from_branch) # NoHash
         /\ HeadOf(jobs[k].from_repo, jobs[k].from_branch)
              = HeadOf(jobs[k].to_repo, jobs[k].to_branch)

\* C10: should_sync_job is false whenever the head resolution of the source or
\* of the target is absent, whatever the other endpoint's hashes are.
C10_AbsentResolutionSkips ==
    \A j \in Names :
        (/\ evaluated[j] # "pending"
         /\ \/ cache[jobs[j].from_repo].state = "none"
            \/ cache[jobs[j].to_repo].state = "none") => evaluated[j] = "skip"

\* C10 witness: a job skipped because its target did not resolve although its
\* source branch exists, and one skipped because its source did not resolve.
C10_Witness ==
    \E j, k \in Names :
        /\ evaluated[j] = "skip"
        /\ cache[jobs[j].to_repo].state = "none"
        /\ cache[jobs[j].from_repo].state = "heads"
        /\ HeadOf(jobs[j].from_repo, jobs[j].from_branch) # NoHash
        /\ evaluated[k] = "skip"
        /\ cache[jobs[k].from_repo].state = "none"
        /\ cache[jobs[k].to_repo].state = "heads"

\* C11: should_sync_job is false when the source branch is missing from the
\* resolved source heads, whether the target branch exists or is missing too.
C11_MissingSourceSkips ==
    NoPushYet =>
        \A j \in Names :
            (/\ evaluated[j] # "pending"
             /\ Resolvable(j)
             /\ HeadOf(jobs[j].from_repo, jobs[j].from_branch) = NoHash)
                => evaluated[j] = "skip"

\* C11 witness: a job between two repositories was skipped with its source
\* branch and its target branch both missing.
C11_Witness ==
    /\ NoPushYet
    /\ \E k \in Names :
         /\ Resolvable(k) /\ evaluated[k] = "skip"
         /\ jobs[k].from_repo # jobs[k].to_repo
         /\ HeadOf(jobs[k].from_repo, jobs[k].from_branch) = NoHash
         /\ HeadOf(jobs[k].to_repo, jobs[k].to_branch) = NoHash

\* the resolver of a newly started process: nothing is cached
FreshResolver ==
    [cache |-> [u \in Urls |-> Unset], queries |-> [u \in Urls |-> 0],
     calls |-> [u \in Urls |-> 0]]

\* the outcomes of a query after which get_remote_heads returns
ReturningOutcomes == {"ok", "exit"}

\* should_sync_job(job) in a run started now, with the repositories as they are
RerunNeedsSync(j, oFrom, oTo) ==
    LET f == get_remote_heads(FreshResolver, jobs[j].from_repo, oFrom, remote)
        t == get_remote_heads(f.res, jobs[j].to_repo, oTo, remote)
    IN needs_sync(f.value, t.value, jobs[j])

\* the run returned and every job it selected succeeded
CleanRun == pc = "done" /\ \A i \in DOMAIN selected : result[selected[i]] = "ok"

SourceRef(j) == <<jobs[j].from_repo, jobs[j].from_branch>>
TargetRef(j) == <<jobs[j].to_repo, jobs[j].to_branch>>

\* job k, selected in this run, pushes to the source branch of job j, or
\* pushes another source to the target branch of job j
Disturbs(k, j) ==
    /\ k # j
    /\ evaluated[k] = "sync"
    /\ \/ TargetRef(k) = SourceRef(j)
       \/ TargetRef(k) = TargetRef(j) /\ SourceRef(k) # SourceRef(j)

C13_PushAnchoredToFetch ==
    [][\A j \in Names :
         (result[j] = "pending" /\ result'[j] = "ok") =>
            /\ remote'[jobs[j].to_repo][jobs[j].to_branch] \in Hashes
            /\ remote'[jobs[j].to_repo][jobs[j].to_branch]
                 = remote[jobs[j].from_repo][jobs[j].from_branch]]_vars

\* C13 witness: a job succeeded whose source branch had moved (another job of
\* the run pushed to it) after the heads were cached; the target holds the
\* fetched commit and not the cached one.
C13_Witness ==
    \E j \in Names :
        /\ result[j] = "ok"
        /\ cache[jobs[j].from_repo].heads[jobs[j].from_branch] \in Hashes
        /\ HeadOf(jobs[j].from_repo, jobs[j].from_branch)
             # cache[jobs[j].from_repo].heads[jobs[j].from_branch]
        /\ HeadOf(jobs[j].to_repo, jobs[j].to_branch)
             = HeadOf(jobs[j].from_repo, jobs[j].from_branch)

\* the order of the invocations of sync_repos
StepOrder == <<"add", "fetch", "push">>

\* C14: the invocations of a job are an initial part of remote add, fetch,
\* push, each at most once and each issued only after the one before it
\* succeeded; a target branch changes only in the step in which a job's push
\* succeeds, so a job whose remote add or fetch fails never pushes.
C14_StepsInOrder ==
    /\ [](\A j \in Names :
            /\ Len(steps[j]) <= Len(StepOrder)
            /\ \A i \in DOMAIN steps[j] :
                 /\ steps[j][i].step = StepOrder[i]
                 /\ i > 1 => steps[j][i - 1].ok
            /\ result[j] = "ok" <=> (Len(steps[j]) = 3 /\ steps[j][3].ok))
    /\ [][remote' # remote =>
            \E j \in Names :
                /\ steps[j] = <<>>
                /\ Len(steps'[j]) = 3 /\ steps'[j][3].ok
                /\ \A u \in Urls, b \in Branches :
                     remote'[u][b] # remote[u][b] => <<u, b>> = TargetRef(j)]_vars

\* C14 witness: one job stopped at a failed fetch and never pushed, its target
\* unchanged, while another job ran all three steps.
C14_Witness ==
    \E j, k \in Names :
        /\ Len(steps[j]) = 2 /\ ~steps[j][2].ok /\ result[j] = "failed"
        /\ HeadOf(jobs[j].to_repo, jobs[j].to_branch)
             = cache[jobs[j].to_repo].heads[jobs[j].to_branch]
        /\ Len(steps[k]) = 3 /\ result[k] = "ok"

\* C15: a job is executed only after the clone and the config step of its
\* target repository both succeeded in this run, against the directory of that
\* clone, and no target repository is cloned or configured more than once,
\* however many jobs it has.
C15_SyncAfterCloneAndConfig ==
    /\ \A j \in Names :
         result[j] # "pending" =>
            \E g \in DOMAIN cloneLog :
                /\ cloneLog[g].repo_url = jobs[j].to_repo
                /\ cloneLog[g].clone = NoExc /\ cloneLog[g].config = NoExc
                /\ g \in DOMAIN dirs /\ dirs[g].repo_url = jobs[j].to_repo
                /\ jobs[j].name \in dirs[g].remotes
                     \/ (Len(steps[j]) <= 1 /\ result[j] = "failed")
    /\ \A u \in Urls : ClonesOf(u) <= 1

\* C15 witness: two jobs of one target ran against its single clone.
C15_Witness ==
    \E j, k \in Names :
        /\ j # k
        /\ jobs[j].to_repo = jobs[k].to_repo
        /\ result[j] = "ok" /\ result[k] = "ok"
        /\ ClonesOf(jobs[j].to_repo) = 1
        /\ \E g \in DOMAIN dirs : {jobs[j].name, jobs[k].name} \subseteq dirs[g].remotes

\* C16: nothing is retried within a run: at most one query per URL, at most
\* one clone/config per target repository, no invocation of a job issued
\* twice, and a job that has run, failed or not, is never run again.
C16_NoRetry ==
    /\ [](\A u \in Urls : queries[u] <= 1 /\ ClonesOf(u) <= 1)
    /\ [](\A j \in Names : \A i, k \in DOMAIN steps[j] :
            steps[j][i].step = steps[j][k].step => i = k)
    /\ [][\A j \in Names :
            result[j] # "pending" => (result'[j] = result[j] /\ steps'[j] = steps[j])]_vars
    /\ [][\A u \in Urls :
            queries[u] = 1 => (queries'[u] = 1 /\ cache'[u] = cache[u])]_vars
    /\ [][Len(cloneLog') >= Len(cloneLog)
          /\ \A g \in DOMAIN cloneLog : cloneLog'[g] = cloneLog[g]]_vars

\* C16 witness: a returned run in which a job's fetch timed out and was not
\* repeated, with one query per URL.
C16_Witness ==
    /\ pc = "done"
    /\ lastExc = TimeoutExpired
    /\ \E j \in Names :
         /\ result[j] = "failed"
         /\ Len(steps[j]) = 2
         /\ \E k \in Names : k > j /\ result[k] = "ok"
    /\ \A u \in Urls : queries[u] = 1 /\ calls[u] >= 3

\* C17: every remote add names a remote the working directory does not have
\* yet: the names of a group's jobs differ from each other and from the
\* remotes of the fresh clone, so no remote add fails on a name collision.
C17_RemoteNamesFree ==
    [][\A j \in Names :
         (steps[j] = <<>> /\ steps'[j] # <<>>) =>
            /\ jobs[j].name \notin dirs[gi].remotes
            /\ \A k \in Names \ {j} : jobs[k].name # jobs[j].name]_vars

\* C18: a job should_sync_job rejected never gets a remote add, fetch or push,
\* and a repository is cloned (and gets a working directory) only if it is
\* the target of a selected job.
C18_SkippedJobsUntouched ==
    /\ \A j \in Names :
         evaluated[j] # "sync" => (steps[j] = <<>> /\ result[j] = "pending")
    /\ \A g \in DOMAIN cloneLog :
         \E j \in Names : evaluated[j] = "sync" /\ jobs[j].to_repo = cloneLog[g].repo_url
    /\ \A g \in DOMAIN dirs :
         /\ \E j \in Names : evaluated[j] = "sync" /\ jobs[j].to_repo = dirs[g].repo_url
         /\ \A j \in Names :
              (evaluated[j] # "sync" /\ jobs[j].name # Origin) =>
                 jobs[j].name \notin dirs[g].remotes

\* C18 witness: a returned run that mirrored one job and left alone two
\* skipped ones, one in sync and one without source branch, whose target was
\* never cloned.
C18_Witness ==
    /\ pc = "done"
    /\ \E j, k, m \in Names :
         /\ result[k] = "ok"
         /\ evaluated[j] = "skip" /\ Resolvable(j)
         /\ cache[jobs[j].from_repo].heads[jobs[j].from_branch] = NoHash
         /\ ClonesOf(jobs[j].to_repo) = 0
         /\ evaluated[m] = "skip" /\ Resolvable(m)
         /\ cache[jobs[m].from_repo].heads[jobs[m].from_branch] # NoHash

\* the job was evaluated and found unprocessable: the heads of an endpoint are
\* absent, or the resolved source heads lack the source branch
Unprocessable(j) ==
    /\ evaluated[j] # "pending"
    /\ \/ cache[jobs[j].from_repo].state = "none"
       \/ cache[jobs[j].to_repo].state = "none"
       \/ cache[jobs[j].from_repo].heads[jobs[j].from_branch] = NoHash

\* C19: an unprocessable job never counts as a failure: it is never marked
\* failed, the failure flag is set only together with a failed processable
\* job, and a run that returns without such a failure exits with status 0.
C19_UnprocessableIsNoFailure ==
    /\ \A j \in Names : Unprocessable(j) => result[j] = "pending"
    /\ global_failure => \E j \in Names : ~Unprocessable(j) /\ result[j] = "failed"
    /\ ~EvalComplete => ~global_failure
    /\ (pc = "done" /\ \A j \in Names : result[j] = "failed" => Unprocessable(j))
          => exit = 0

\* C19 witness: a run returned 0 with one job whose target did not resolve
\* and one whose source branch is missing.
C19_Witness ==
    /\ pc = "done"
    /\ exit = 0
    /\ \E j, k \in Names :
         /\ Unprocessable(j) /\ cache[jobs[j].to_repo].state = "none"
         /\ cache[jobs[j].from_repo].state = "heads"
         /\ Unprocessable(k) /\ Resolvable(k)

\* C20: the executor never meets absent target heads: every selected job's
\* target has cached heads, the executor's lookup issues no query and changes
\* no cached value, and no job fails before its first invocation, which is
\* where the ValueError of the guard would be raised.
C20_GuardUnreachable ==
    /\ [](\A i \in DOMAIN selected : cache[jobs[selected[i]].to_repo].state = "heads")
    /\ [](\A j \in Names : result[j] = "failed" => steps[j] # <<>>)
    /\ [](EvalComplete => lastExc # ValueError)
    /\ [][pc = "jobs" =>
            /\ queries' = queries /\ cache' = cache
            /\ \A u \in Urls : calls'[u] = calls[u] + 1
                  => u = jobs[Groups[gi].jobs[ji]].to_repo]_vars

\* C20 witness: two jobs of one target ran; the second read the cached heads
\* of the target, which the first job's push had already outdated, without a
\* new query.
C20_Witness ==
    \E j, k \in Names :
        /\ j # k /\ jobs[j].to_repo = jobs[k].to_repo
        /\ result[j] = "ok" /\ result[k] # "pending"
        /\ queries[jobs[j].to_repo] = 1
        /\ calls[jobs[j].to_repo] >= 4
        /\ cache[jobs[j].to_repo].state = "heads"
        /\ cache[jobs[j].to_repo].heads[jobs[j].to_branch]
             # HeadOf(jobs[j].to_repo, jobs[j].to_branch)
====
